---------------------------- MODULE Spec2Model ----------------------------
(***************************************************************************)
(* Model of the annotation-to-label conversion of the tree/sign detector   *)
(* training pipeline:                                                      *)
(*   ml/utils/yolo_labels.py : clamp, normalize_box, sample_to_boxes       *)
(*   ml/train_treesigns.py   : find_image_path, build_yolo_labels          *)
(*                                                                         *)
(* Pixel quantities are Python numbers.  The model holds them as integers  *)
(* counted in quarter pixels (Scale units per pixel); inputs are multiples *)
(* of half a pixel, so every sum, difference and halving the code performs *)
(* on them is exact in IEEE double arithmetic and in the model alike.  The *)
(* divisions by the image dimensions are not exact: they are modelled by   *)
(* correctly rounded binary floating point with MantissaBits significant   *)
(* bits (round to nearest, ties to even).                                  *)
(***************************************************************************)
EXTENDS Integers, Sequences, FiniteSets, TLC

(***************************************************************************)
(* Bounds of the model.                                                    *)
(***************************************************************************)
\* longest annotation list drawn from the representative annotations
MaxAnn == 2
\* largest corner coordinate, in pixels, handed to normalize_box directly
MaxCoord == 5

(***************************************************************************)
(* Units and number format.                                                *)
(***************************************************************************)
\* model units per pixel (quarter pixels)
Scale == 4
\* significand width of a Python float (IEEE 754 binary64)
MantissaBits == 53

(***************************************************************************)
(* yolo_labels.py: module constants                                        *)
(***************************************************************************)
RegisteredNames == {"tree_deciduous", "tree_pine", "billboard", "stop_sign"}

CLASS_NAME_TO_ID ==
    [n \in RegisteredNames |->
        CASE n = "tree_deciduous" -> 0
          [] n = "tree_pine"      -> 1
          [] n = "billboard"      -> 2
          [] n = "stop_sign"      -> 3]

IGNORED_CLASSES == {"dense_cover"}

NEGATIVE_CLASS == "negative"

(***************************************************************************)
(* Python floats: zero, or a significand of MantissaBits bits (most        *)
(* significant first, leading bit 1) and the exponent e of its last bit;   *)
(* the value is significand * 2^e.  Only non-negative values occur after   *)
(* clamping.                                                               *)
(***************************************************************************)
FZero == [m |-> <<>>, e |-> 0]

Last(s) == s[Len(s)]

\* index of the last 0 bit (0 when there is none)
LastZero(bits) ==
    IF \A i \in 1..Len(bits) : bits[i] = 1 THEN 0
    ELSE CHOOSE i \in 1..Len(bits) :
            bits[i] = 0 /\ \A j \in (i + 1)..Len(bits) : bits[j] = 1

\* index of the last 1 bit (0 when there is none)
LastOne(bits) ==
    IF \A i \in 1..Len(bits) : bits[i] = 0 THEN 0
    ELSE CHOOSE i \in 1..Len(bits) :
            bits[i] = 1 /\ \A j \in (i + 1)..Len(bits) : bits[j] = 0

\* bits + 1, same length; all ones wraps to all zeros
IncBits(bits) ==
    LET z == LastZero(bits)
    IN  [i \in 1..Len(bits) |-> IF i < z THEN bits[i] ELSE IF i = z THEN 1 ELSE 0]

\* bits - 1, same length; all zeros wraps to all ones
DecBits(bits) ==
    LET o == LastOne(bits)
    IN  [i \in 1..Len(bits) |-> IF i < o THEN bits[i] ELSE IF i = o THEN 0 ELSE 1]

AllZero(bits) == \A i \in 1..Len(bits) : bits[i] = 0

AllOne(bits) == \A i \in 1..Len(bits) : bits[i] = 1

\* the significand 1000...0
MinMant == [i \in 1..MantissaBits |-> IF i = 1 THEN 1 ELSE 0]

\* the significand 1111...1
MaxMant == [i \in 1..MantissaBits |-> 1]

\* round a significand of at least MantissaBits bits with last-bit exponent e
\* to MantissaBits bits: round to nearest, ties to even
RoundBits(bits, e) ==
    LET keep  == SubSeq(bits, 1, MantissaBits)
        drop  == SubSeq(bits, MantissaBits + 1, Len(bits))
        d     == Len(drop)
        up    == /\ d > 0
                 /\ drop[1] = 1
                 /\ \/ ~AllZero(SubSeq(drop, 2, d))
                    \/ Last(keep) = 1
    IN  IF ~up THEN [m |-> keep, e |-> e + d]
        ELSE IF AllOne(keep) THEN [m |-> MinMant, e |-> e + d + 1]
        ELSE [m |-> IncBits(keep), e |-> e + d]

RECURSIVE NormExp(_, _, _)
\* <<p', q', k>> with p/q = (p'/q') * 2^k and q' <= p' < 2q'   (p, q > 0)
NormExp(p, q, k) ==
    IF p >= 2 * q THEN NormExp(p, 2 * q, k + 1)
    ELSE IF p < q THEN NormExp(2 * p, q, k - 1)
    ELSE <<p, q, k>>

RECURSIVE Pow2(_)
Pow2(n) == IF n = 0 THEN 1 ELSE 2 * Pow2(n - 1)

\* the long division and the multiplication proceed by limbs of LimbBits bits
LimbBits == (MantissaBits - 1) \div 4

LimbBase == Pow2(LimbBits)

\* the LimbBits binary digits of d < LimbBase, most significant first
LimbDigits(d) == [i \in 1..LimbBits |-> (d \div Pow2(LimbBits - i)) % 2]

RECURSIVE BitsToInt(_, _, _)
\* the integer with binary digits bits[from..to]
BitsToInt(bits, from, to) ==
    IF to < from THEN 0
    ELSE 2 * BitsToInt(bits, from, to - 1) + bits[to]

\* the float nearest to p / q, for integers p >= 0, q > 0: what the float
\* division a / b yields when a / b = p / q and a, b are exact.  After the
\* leading 1, the quotient digits come four limbs at a time by long division.
FromRatio(p, q) ==
    IF p = 0 THEN FZero
    ELSE LET n    == NormExp(p, q, 0)
             r0   == n[1] - n[2]
             r1   == (r0 * LimbBase) % n[2]
             r2   == (r1 * LimbBase) % n[2]
             r3   == (r2 * LimbBase) % n[2]
             r    == (r3 * LimbBase) % n[2]
             bits == <<1>> \o LimbDigits((r0 * LimbBase) \div n[2])
                           \o LimbDigits((r1 * LimbBase) \div n[2])
                           \o LimbDigits((r2 * LimbBase) \div n[2])
                           \o LimbDigits((r3 * LimbBase) \div n[2])
             e    == n[3] - (MantissaBits - 1)
             up   == \/ 2 * r > n[2]
                     \/ 2 * r = n[2] /\ Last(bits) = 1
         IN  IF ~up THEN [m |-> bits, e |-> e]
             ELSE IF AllOne(bits) THEN [m |-> MinMant, e |-> e + 1]
             ELSE [m |-> IncBits(bits), e |-> e]

(***************************************************************************)
(* Float operations the code does not perform but the properties speak of: *)
(* the product with an image dimension (rounded by RoundBits), the         *)
(* neighbouring floats and the comparisons with 0 and 1.                   *)
(***************************************************************************)
RECURSIVE IntBits(_)
\* binary digits of n >= 0, most significant first, no leading zero
IntBits(n) == IF n = 0 THEN <<>> ELSE Append(IntBits(n \div 2), n % 2)

\* binary digits of bits * n for a significand bits and an integer n >= 1,
\* multiplied limb by limb from the least significant end
MulBits(bits, n) ==
    LET t1 == BitsToInt(bits, 3 * LimbBits + 2, 4 * LimbBits + 1) * n
        t2 == BitsToInt(bits, 2 * LimbBits + 2, 3 * LimbBits + 1) * n + t1 \div LimbBase
        t3 == BitsToInt(bits, LimbBits + 2, 2 * LimbBits + 1) * n + t2 \div LimbBase
        t4 == BitsToInt(bits, 2, LimbBits + 1) * n + t3 \div LimbBase
        t5 == bits[1] * n + t4 \div LimbBase
    IN  IntBits(t5) \o LimbDigits(t4 % LimbBase) \o LimbDigits(t3 % LimbBase)
                    \o LimbDigits(t2 % LimbBase) \o LimbDigits(t1 % LimbBase)

\* the float product f * n for an integer n >= 1 (n is exact as a float)
FMulInt(f, n) ==
    IF f = FZero THEN FZero ELSE RoundBits(MulBits(f.m, n), f.e)

\* the next float above f (f > 0)
FSucc(f) ==
    IF AllOne(f.m) THEN [m |-> MinMant, e |-> f.e + 1]
    ELSE [m |-> IncBits(f.m), e |-> f.e]

\* the next float below f (f > 0, not the smallest)
FPred(f) ==
    IF f.m = MinMant THEN [m |-> MaxMant, e |-> f.e - 1]
    ELSE [m |-> DecBits(f.m), e |-> f.e]

\* the float 1.0
FOne == [m |-> MinMant, e |-> 1 - MantissaBits]

\* 0 <= f <= 1
FInUnit(f) == f = FZero \/ f = FOne \/ f.e + MantissaBits <= 0

\* f > 0
FPositive(f) == f # FZero

(***************************************************************************)
(* JSON values.  A field read with dict.get is a record: t is the Python   *)
(* type of the value ("none" when the key is absent or null) and v its     *)
(* numeric value in model units (0 when not a number).                     *)
(***************************************************************************)
None == [t |-> "none", v |-> 0]

Str == [t |-> "str", v |-> 0]

\* the int n (pixels)
Int_(n) == [t |-> "int", v |-> n * Scale]

\* the float h / 2 (pixels)
Half(h) == [t |-> "float", v |-> h * (Scale \div 2)]

\* True, which Python counts as the int 1
True_ == [t |-> "bool", v |-> Scale]

\* isinstance(value, (int, float))
IsNumber(value) == value.t \in {"int", "float", "bool"}

NoCenter == [dict |-> FALSE, x |-> None, y |-> None]

\* an annotations entry that is not a mapping
NotADict ==
    [dict |-> FALSE, kind |-> "none", centerPx |-> NoCenter, radiusPx |-> None,
     x |-> None, y |-> None, width |-> None, height |-> None]

Circle(cx, cy, r) ==
    [dict |-> TRUE, kind |-> "circle",
     centerPx |-> [dict |-> TRUE, x |-> cx, y |-> cy], radiusPx |-> r,
     x |-> None, y |-> None, width |-> None, height |-> None]

BBox(x, y, w, h) ==
    [dict |-> TRUE, kind |-> "bbox", centerPx |-> NoCenter, radiusPx |-> None,
     x |-> x, y |-> y, width |-> w, height |-> h]

(***************************************************************************)
(* yolo_labels.py: clamp, normalize_box                                    *)
(***************************************************************************)
Min(a, b) == IF b < a THEN b ELSE a

Max(a, b) == IF b > a THEN b ELSE a

clamp(value, min_value, max_value) == Max(min_value, Min(max_value, value))

\* normalize_box with the degenerate-box test written as < instead of <=
normalize_box_strict(x0, y0, x1, y1, width, height) ==
    LET cx0 == clamp(x0, 0, width * Scale)
        cx1 == clamp(x1, 0, width * Scale)
        cy0 == clamp(y0, 0, height * Scale)
        cy1 == clamp(y1, 0, height * Scale)
        box_w == cx1 - cx0
        box_h == cy1 - cy0
    IN  IF box_w < Scale \/ box_h < Scale THEN <<>>
        ELSE <<(cx0 + cx1) \div 2, (cy0 + cy1) \div 2, box_w, box_h>>

\* normalize_box with the degenerate-box test made before the clamping
normalize_box_test_first(x0, y0, x1, y1, width, height) ==
    LET cx0 == clamp(x0, 0, width * Scale)
        cx1 == clamp(x1, 0, width * Scale)
        cy0 == clamp(y0, 0, height * Scale)
        cy1 == clamp(y1, 0, height * Scale)
    IN  IF x1 - x0 <= Scale \/ y1 - y0 <= Scale THEN <<>>
        ELSE <<(cx0 + cx1) \div 2, (cy0 + cy1) \div 2, cx1 - cx0, cy1 - cy0>>

\* normalize_box: corners in model units, width and height in pixels;
\* <<>> is Python's None, otherwise <<x_center, y_center, box_w, box_h>>
normalize_box(x0, y0, x1, y1, width, height) ==
    LET cx0 == clamp(x0, 0, width * Scale)
        cx1 == clamp(x1, 0, width * Scale)
        cy0 == clamp(y0, 0, height * Scale)
        cy1 == clamp(y1, 0, height * Scale)
        box_w == cx1 - cx0
        box_h == cy1 - cy0
    IN  IF box_w <= Scale \/ box_h <= Scale THEN <<>>
        ELSE <<(cx0 + cx1) \div 2, (cy0 + cy1) \div 2, box_w, box_h>>

(***************************************************************************)
(* yolo_labels.py: sample_to_boxes                                         *)
(***************************************************************************)
\* Corners with the circle's radius taken for the side of its square
Corners_radius_side(annotation) ==
    IF ~annotation.dict THEN <<>>
    ELSE IF annotation.kind = "circle" THEN
        LET center == annotation.centerPx
            radius == annotation.radiusPx
        IN  IF ~center.dict \/ ~IsNumber(radius) THEN <<>>
            ELSE IF ~IsNumber(center.x) \/ ~IsNumber(center.y) THEN <<>>
            ELSE <<center.x.v - radius.v, center.y.v - radius.v,
                   center.x.v, center.y.v>>
    ELSE IF annotation.kind = "bbox" THEN
        IF ~(\A value \in {annotation.x, annotation.y,
                           annotation.width, annotation.height} : IsNumber(value))
        THEN <<>>
        ELSE <<annotation.x.v, annotation.y.v,
               annotation.x.v + annotation.width.v,
               annotation.y.v + annotation.height.v>>
    ELSE <<>>

\* the corners sample_to_boxes hands to normalize_box for one annotation,
\* or <<>> when the annotation is skipped before that (continue)
Corners(annotation) ==
    IF ~annotation.dict THEN <<>>
    ELSE IF annotation.kind = "circle" THEN
        LET center == annotation.centerPx
            radius == annotation.radiusPx
        IN  IF ~center.dict \/ ~IsNumber(radius) THEN <<>>
            ELSE IF ~IsNumber(center.x) \/ ~IsNumber(center.y) THEN <<>>
            ELSE <<center.x.v - radius.v, center.y.v - radius.v,
                   center.x.v + radius.v, center.y.v + radius.v>>
    ELSE IF annotation.kind = "bbox" THEN
        IF ~(\A value \in {annotation.x, annotation.y,
                           annotation.width, annotation.height} : IsNumber(value))
        THEN <<>>
        ELSE <<annotation.x.v, annotation.y.v,
               annotation.x.v + annotation.width.v,
               annotation.y.v + annotation.height.v>>
    ELSE <<>>

\* YoloBox left in pixel units: the division by the image size forgotten
YoloBox_unscaled(class_id, raw, width, height) ==
    [class_id |-> class_id,
     x_center |-> FromRatio(raw[1], Scale),
     y_center |-> FromRatio(raw[2], Scale),
     width    |-> FromRatio(raw[3], Scale),
     height   |-> FromRatio(raw[4], Scale)]

\* YoloBox with the vertical fields divided by the image width
YoloBox_by_width(class_id, raw, width, height) ==
    [class_id |-> class_id,
     x_center |-> FromRatio(raw[1], Scale * width),
     y_center |-> FromRatio(raw[2], Scale * width),
     width    |-> FromRatio(raw[3], Scale * width),
     height   |-> FromRatio(raw[4], Scale * width)]

\* the YoloBox built from a normalize_box result
YoloBox(class_id, raw, width, height) ==
    [class_id |-> class_id,
     x_center |-> FromRatio(raw[1], Scale * width),
     y_center |-> FromRatio(raw[2], Scale * height),
     width    |-> FromRatio(raw[3], Scale * width),
     height   |-> FromRatio(raw[4], Scale * height)]

\* one iteration of the loop: the boxes it appends (none or one)
AnnotationBoxes(annotation, class_id, width, height) ==
    LET c == Corners(annotation)
    IN  IF c = <<>> THEN <<>>
        ELSE LET raw == normalize_box(c[1], c[2], c[3], c[4], width, height)
             IN  IF raw = <<>> THEN <<>>
                 ELSE <<YoloBox(class_id, raw, width, height)>>

RECURSIVE ForEachAnnotation_break(_, _, _, _, _)
\* the loop leaving at the first skipped annotation (break for continue)
ForEachAnnotation_break(annotations, i, class_id, width, height) ==
    IF i > Len(annotations) THEN <<>>
    ELSE IF AnnotationBoxes(annotations[i], class_id, width, height) = <<>>
    THEN <<>>
    ELSE AnnotationBoxes(annotations[i], class_id, width, height)
            \o ForEachAnnotation_break(annotations, i + 1, class_id, width, height)

RECURSIVE ForEachAnnotation(_, _, _, _, _)
\* the for loop over annotations[i..]
ForEachAnnotation(annotations, i, class_id, width, height) ==
    IF i > Len(annotations) THEN <<>>
    ELSE AnnotationBoxes(annotations[i], class_id, width, height)
            \o ForEachAnnotation(annotations, i + 1, class_id, width, height)

\* hash(class_name) raises TypeError
Unhashable(class_name) == class_name.t \in {"list", "dict"}

\* sample_to_boxes giving an unregistered class the identifier 0
sample_to_boxes_default_id(smp, width, height) ==
    LET class_name == smp.class
    IN  IF Unhashable(class_name)
        THEN [raised |-> "TypeError", boxes |-> <<>>]
        ELSE IF (class_name.t = "str" /\ class_name.v \in IGNORED_CLASSES)
                \/ class_name.t = "none"
        THEN [raised |-> "", boxes |-> <<>>]
        ELSE IF class_name.t = "str" /\ class_name.v = NEGATIVE_CLASS
        THEN [raised |-> "", boxes |-> <<>>]
        ELSE IF smp.annotations.t # "list"
        THEN [raised |-> "", boxes |-> <<>>]
        ELSE [raised |-> "",
              boxes  |-> ForEachAnnotation(smp.annotations.v, 1,
                             IF class_name.t = "str" /\ class_name.v \in RegisteredNames
                             THEN CLASS_NAME_TO_ID[class_name.v] ELSE 0,
                             width, height)]

\* sample_to_boxes: the exception raised ("" when none) and the list returned
sample_to_boxes(smp, width, height) ==
    LET class_name == smp.class
    IN  IF Unhashable(class_name)
        THEN [raised |-> "TypeError", boxes |-> <<>>]
        ELSE IF (class_name.t = "str" /\ class_name.v \in IGNORED_CLASSES)
                \/ class_name.t = "none"
        THEN [raised |-> "", boxes |-> <<>>]
        ELSE IF class_name.t = "str" /\ class_name.v = NEGATIVE_CLASS
        THEN [raised |-> "", boxes |-> <<>>]
        ELSE IF ~(class_name.t = "str" /\ class_name.v \in RegisteredNames)
        THEN [raised |-> "", boxes |-> <<>>]
        ELSE IF smp.annotations.t # "list"
        THEN [raised |-> "", boxes |-> <<>>]
        ELSE [raised |-> "",
              boxes  |-> ForEachAnnotation(smp.annotations.v, 1,
                             CLASS_NAME_TO_ID[class_name.v], width, height)]

(***************************************************************************)
(* Inputs.                                                                 *)
(***************************************************************************)
\* image sizes (width, height) in pixels for sample_to_boxes
Dims == {<<11, 8>>, <<8, 11>>}

\* image sizes for direct calls of normalize_box
NormDims == {<<3, 4>>, <<4, 3>>}

\* corner coordinates for direct calls: every half pixel from -1 to MaxCoord
CornerVals == {h * (Scale \div 2) : h \in (-2)..(2 * MaxCoord)}

\* values of sample.get("class")
ClassValues ==
    {[t |-> "none", v |-> ""], [t |-> "list", v |-> ""], [t |-> "int", v |-> ""],
     [t |-> "str", v |-> "dense_cover"], [t |-> "str", v |-> "negative"],
     [t |-> "str", v |-> "road_debris"], [t |-> "str", v |-> "tree_pine"],
     [t |-> "str", v |-> "billboard"]}

\* representative annotations: well-formed, degenerate, off-frame, malformed
RepAnnotations ==
    {BBox(Int_(1), Int_(1), Int_(3), Int_(2)),
     BBox(Int_(6), Int_(2), Int_(3), Int_(4)),
     BBox(Int_(2), Int_(2), Int_(1), Int_(3)),
     BBox(Half(4), Half(4), Half(3), Half(3)),
     BBox(Int_(-5), Int_(1), Int_(3), Int_(3)),
     BBox(Int_(12), Int_(12), Int_(3), Int_(3)),
     BBox(Int_(5), Int_(5), Int_(-3), Int_(-3)),
     BBox(True_, Int_(-1), Int_(4), Int_(4)),
     Circle(Int_(4), Int_(4), Int_(2)),
     Circle(Int_(1), Int_(4), Int_(2)),
     Circle(Int_(-4), Int_(4), Int_(2)),
     Circle(Int_(4), Int_(4), Half(1)),
     NotADict,
     [BBox(Int_(1), Int_(1), Int_(3), Int_(2)) EXCEPT !.kind = "polygon"],
     BBox(Int_(1), Int_(1), None, Int_(2)),
     BBox(Str, Int_(1), Int_(3), Int_(2)),
     [Circle(Int_(4), Int_(4), Int_(2)) EXCEPT !.centerPx = NoCenter],
     Circle(Int_(4), None, Int_(2)),
     Circle(Int_(4), Int_(4), Str)}

\* the sequences over S of length at most n
SeqsUpTo(S, n) == UNION {[1..k -> S] : k \in 0..n}

\* values of sample.get("annotations")
AnnotationValues ==
    {[t |-> "list", v |-> a] : a \in SeqsUpTo(RepAnnotations, MaxAnn)}
        \cup {[t |-> "none", v |-> <<>>], [t |-> "dict", v |-> <<>>]}

\* in-frame and frame-crossing boxes on a grid, one per sample
GridBoxes ==
    {BBox(Int_(x), Int_(y), Half(w), Half(h)) :
        x \in {0, 3, 6}, y \in {0, 3, 6}, w \in {2, 3, 6, 10}, h \in {2, 3, 6, 10}}

Samples ==
    {[class |-> c, annotations |-> a] : c \in ClassValues, a \in AnnotationValues}
        \cup {[class |-> [t |-> "str", v |-> "stop_sign"],
               annotations |-> [t |-> "list", v |-> <<b>>]] : b \in GridBoxes}

(***************************************************************************)
(* State.                                                                  *)
(***************************************************************************)
VARIABLES
    pc,         \* position: "call" | "returned" | "raised" for sample_to_boxes,
                \* "normalize" | "normalized" for normalize_box,
                \* "build" | "loop" | "done" | "raised" for build_yolo_labels
    sample,     \* sample_to_boxes: the sample record
    width,      \* image width in pixels
    height,     \* image height in pixels
    boxes,      \* sample_to_boxes: the list returned
    corners,    \* normalize_box: <<x0, y0, x1, y1>>
    raw,        \* normalize_box: the value returned
    labels_json,    \* labels_json_dir: sample id -> its .json file
    images,         \* images_dir: sample id -> extension -> image file
    labels_yolo,    \* labels_yolo_dir: sample id -> its .txt file
    todo,           \* build_yolo_labels: sample ids still to visit, in order
    sample_ids      \* build_yolo_labels: the list being returned

convVars == <<sample, width, height, boxes, corners, raw>>

dirVars == <<labels_json, images, labels_yolo, todo, sample_ids>>

vars == <<pc, sample, width, height, boxes, corners, raw,
          labels_json, images, labels_yolo, todo, sample_ids>>

NoSample == [class |-> [t |-> "none", v |-> ""],
             annotations |-> [t |-> "none", v |-> <<>>]]

\* no directories: the state of the file system when only the conversion runs
NoDirectories ==
    /\ labels_json = <<>>
    /\ images = <<>>
    /\ labels_yolo = <<>>
    /\ todo = <<>>
    /\ sample_ids = <<>>

(***************************************************************************)
(* sample_to_boxes applied to one sample.                                  *)
(***************************************************************************)
Init ==
    /\ pc = "call"
    /\ sample \in Samples
    /\ \E d \in Dims : width = d[1] /\ height = d[2]
    /\ boxes = <<>>
    /\ corners = <<>>
    /\ raw = <<>>
    /\ NoDirectories

SampleToBoxesReturn ==
    /\ pc = "call"
    /\ sample_to_boxes(sample, width, height).raised = ""
    /\ boxes' = sample_to_boxes(sample, width, height).boxes
    /\ pc' = "returned"
    /\ UNCHANGED <<sample, width, height, corners, raw>>
    /\ UNCHANGED dirVars

SampleToBoxesRaise ==
    /\ pc = "call"
    /\ sample_to_boxes(sample, width, height).raised # ""
    /\ pc' = "raised"
    /\ UNCHANGED <<sample, width, height, boxes, corners, raw>>
    /\ UNCHANGED dirVars

Next == SampleToBoxesReturn \/ SampleToBoxesRaise

Spec == Init /\ [][Next]_vars

(***************************************************************************)
(* normalize_box applied to arbitrary corners.                             *)
(***************************************************************************)
InitNormalize ==
    /\ pc = "normalize"
    /\ corners \in CornerVals \X CornerVals \X CornerVals \X CornerVals
    /\ \E d \in NormDims : width = d[1] /\ height = d[2]
    /\ raw = <<>>
    /\ sample = NoSample
    /\ boxes = <<>>
    /\ NoDirectories

CallNormalizeBox ==
    /\ pc = "normalize"
    /\ raw' = normalize_box(corners[1], corners[2], corners[3], corners[4],
                            width, height)
    /\ pc' = "normalized"
    /\ UNCHANGED <<sample, width, height, boxes, corners>>
    /\ UNCHANGED dirVars

NextNormalize == CallNormalizeBox

SpecNormalize == InitNormalize /\ [][NextNormalize]_vars

(***************************************************************************)
(* train_treesigns.py: build_yolo_labels over the dataset directories.     *)
(* File names are strings, held as sequences of character codes so that    *)
(* their order is the order of Python strings.                             *)
(***************************************************************************)
\* the sample ids "a", "a-b" and "b"
SampleIds == {<<97>>, <<97, 45, 98>>, <<98>>}

\* ".json"
JsonSuffix == <<46, 106, 115, 111, 110>>

ALLOWED_IMAGE_EXTS == <<".png", ".jpg", ".jpeg">>

\* size of every readable image (width, height)
ImageSize == <<11, 8>>

RECURSIVE StrLess(_, _)
\* s < t for Python strings
StrLess(s, t) ==
    IF t = <<>> THEN FALSE
    ELSE IF s = <<>> THEN TRUE
    ELSE IF s[1] # t[1] THEN s[1] < t[1]
    ELSE StrLess(Tail(s), Tail(t))

\* label_path of a sample id, as the file name the paths are ordered by
LabelPath(sample_id) == sample_id \o JsonSuffix

RECURSIVE SortedStems(_)
\* the stems of sorted(labels_json_dir.glob("*.json")) for the ids in S
SortedStems(S) ==
    IF S = {} THEN <<>>
    ELSE LET first == CHOOSE x \in S :
                        \A y \in S \ {x} : StrLess(LabelPath(x), LabelPath(y))
         IN  <<first>> \o SortedStems(S \ {first})

\* find_image_path: the first allowed extension whose file exists, "" if none
find_image_path(sample_id, images_dir) ==
    IF \A i \in 1..Len(ALLOWED_IMAGE_EXTS) :
            images_dir[sample_id][ALLOWED_IMAGE_EXTS[i]] = "missing"
    THEN ""
    ELSE ALLOWED_IMAGE_EXTS[
            CHOOSE i \in 1..Len(ALLOWED_IMAGE_EXTS) :
                /\ images_dir[sample_id][ALLOWED_IMAGE_EXTS[i]] # "missing"
                /\ \A j \in 1..(i - 1) :
                    images_dir[sample_id][ALLOWED_IMAGE_EXTS[j]] = "missing"]

\* format_yolo_labels: one line per box, in order; a line is held as its
\* leading class_id field
format_yolo_labels(bs) == [i \in 1..Len(bs) |-> bs[i].class_id]

\* the class filter with the negative sentinel left out of the test
Trainable_registered_only(class_name) ==
    class_name.t = "str" /\ class_name.v \in RegisteredNames

\* the class filter of build_yolo_labels: the sample is kept
Trainable(class_name) ==
    ~(~(class_name.t = "str" /\ class_name.v \in RegisteredNames)
      /\ ~(class_name.t = "str" /\ class_name.v = NEGATIVE_CLASS))

NoFile == [exists |-> FALSE, stale |-> FALSE, lines |-> <<>>]

\* a label file left by an earlier run
StaleFile == [exists |-> TRUE, stale |-> TRUE, lines |-> <<1>>]

NoJson == [exists |-> FALSE, valid |-> FALSE, sample |-> NoSample]

InvalidJson == [exists |-> TRUE, valid |-> FALSE, sample |-> NoSample]

JsonOf(smp) == [exists |-> TRUE, valid |-> TRUE, sample |-> smp]

\* the .json files a sample id can have
JsonFiles ==
    {NoJson, InvalidJson} \cup
    {JsonOf([class |-> [t |-> "str", v |-> "tree_pine"],
             annotations |-> [t |-> "list",
                 v |-> <<BBox(Int_(1), Int_(1), Int_(3), Int_(2)), NotADict>>]]),
     JsonOf([class |-> [t |-> "str", v |-> "negative"],
             annotations |-> [t |-> "list", v |-> <<>>]]),
     JsonOf([class |-> [t |-> "str", v |-> "road_debris"],
             annotations |-> [t |-> "list",
                 v |-> <<BBox(Int_(1), Int_(1), Int_(3), Int_(2))>>]]),
     JsonOf([class |-> [t |-> "str", v |-> "dense_cover"],
             annotations |-> [t |-> "list", v |-> <<>>]]),
     JsonOf([class |-> [t |-> "list", v |-> ""],
             annotations |-> [t |-> "list", v |-> <<>>]])}

\* the image files a sample id can have: per extension "missing", "ok" or
\* "corrupt" (Image.open raises OSError)
ImageFiles ==
    {[e \in {".png", ".jpg", ".jpeg"} |-> "missing"],
     [e \in {".png", ".jpg", ".jpeg"} |-> IF e = ".png" THEN "ok" ELSE "missing"],
     [e \in {".png", ".jpg", ".jpeg"} |-> IF e = ".png" THEN "corrupt" ELSE "ok"],
     [e \in {".png", ".jpg", ".jpeg"} |-> IF e = ".jpeg" THEN "ok" ELSE "missing"]}

InitLabels ==
    /\ pc = "build"
    /\ labels_json \in [SampleIds -> JsonFiles]
    /\ images \in [SampleIds -> ImageFiles]
    /\ labels_yolo \in [SampleIds -> {NoFile, StaleFile}]
    /\ todo = <<>>
    /\ sample_ids = <<>>
    /\ sample = NoSample
    /\ width = ImageSize[1]
    /\ height = ImageSize[2]
    /\ boxes = <<>>
    /\ corners = <<>>
    /\ raw = <<>>

\* lines 71-76 with the unlinking of the old .txt files left out
BuildStart_keep_stale ==
    /\ pc = "build"
    /\ todo' = SortedStems({id \in SampleIds : labels_json[id].exists})
    /\ sample_ids' = <<>>
    /\ pc' = "loop"
    /\ UNCHANGED <<labels_json, images, labels_yolo>>
    /\ UNCHANGED convVars

\* lines 71-76: every .txt file of the output directory is unlinked, the
\* result list is emptied and the .json paths are sorted
BuildStart ==
    /\ pc = "build"
    /\ labels_yolo' = [id \in SampleIds |-> NoFile]
    /\ todo' = SortedStems({id \in SampleIds : labels_json[id].exists})
    /\ sample_ids' = <<>>
    /\ pc' = "loop"
    /\ UNCHANGED <<labels_json, images>>
    /\ UNCHANGED convVars

\* the iteration ends at a continue
Continue ==
    /\ todo' = Tail(todo)
    /\ UNCHANGED <<pc, labels_json, images, labels_yolo, sample_ids>>
    /\ UNCHANGED convVars

\* lines 78-81: no image for the sample
SkipMissingImage ==
    /\ pc = "loop" /\ todo # <<>>
    /\ find_image_path(Head(todo), images) = ""
    /\ Continue

\* lines 83-88: the label file is not valid JSON
SkipInvalidJson ==
    /\ pc = "loop" /\ todo # <<>>
    /\ find_image_path(Head(todo), images) # ""
    /\ ~labels_json[Head(todo)].valid
    /\ Continue

\* lines 90-95: the image cannot be read
SkipUnreadableImage ==
    /\ pc = "loop" /\ todo # <<>>
    /\ find_image_path(Head(todo), images) # ""
    /\ labels_json[Head(todo)].valid
    /\ images[Head(todo)][find_image_path(Head(todo), images)] = "corrupt"
    /\ Continue

\* the iteration reached the class filter of lines 97-98
AtClassFilter ==
    /\ pc = "loop" /\ todo # <<>>
    /\ find_image_path(Head(todo), images) # ""
    /\ labels_json[Head(todo)].valid
    /\ images[Head(todo)][find_image_path(Head(todo), images)] = "ok"

\* line 98: the membership test hashes the class and raises TypeError
RaiseOnClass ==
    /\ AtClassFilter
    /\ Unhashable(labels_json[Head(todo)].sample.class)
    /\ pc' = "raised"
    /\ UNCHANGED dirVars
    /\ UNCHANGED convVars

\* lines 97-99: the class is neither registered nor the negative sentinel
SkipClass ==
    /\ AtClassFilter
    /\ ~Unhashable(labels_json[Head(todo)].sample.class)
    /\ ~Trainable(labels_json[Head(todo)].sample.class)
    /\ Continue

\* lines 101-106: the label file is written and the sample id recorded
WriteLabel ==
    /\ AtClassFilter
    /\ ~Unhashable(labels_json[Head(todo)].sample.class)
    /\ Trainable(labels_json[Head(todo)].sample.class)
    /\ sample_to_boxes(labels_json[Head(todo)].sample,
                       ImageSize[1], ImageSize[2]).raised = ""
    /\ labels_yolo' =
        [labels_yolo EXCEPT ![Head(todo)] =
            [exists |-> TRUE, stale |-> FALSE,
             lines |-> format_yolo_labels(
                 sample_to_boxes(labels_json[Head(todo)].sample,
                                 ImageSize[1], ImageSize[2]).boxes)]]
    /\ sample_ids' = Append(sample_ids, Head(todo))
    /\ todo' = Tail(todo)
    /\ UNCHANGED <<pc, labels_json, images>>
    /\ UNCHANGED convVars

\* line 108
BuildReturn ==
    /\ pc = "loop" /\ todo = <<>>
    /\ pc' = "done"
    /\ UNCHANGED dirVars
    /\ UNCHANGED convVars

NextLabels ==
    \/ BuildStart
    \/ SkipMissingImage
    \/ SkipInvalidJson
    \/ SkipUnreadableImage
    \/ RaiseOnClass
    \/ SkipClass
    \/ WriteLabel
    \/ BuildReturn

SpecLabels == InitLabels /\ [][NextLabels]_vars

(***************************************************************************)
(* Vocabulary of the properties, stated from the annotation format and     *)
(* independently of the operators above.                                   *)
(***************************************************************************)
\* v limited to [0, hi]
ClampTo(v, hi) == IF v < 0 THEN 0 ELSE IF v > hi THEN hi ELSE v

\* a circle or bbox record whose required fields are all numbers
WellFormed(a) ==
    /\ a.dict
    /\ \/ /\ a.kind = "circle"
          /\ a.centerPx.dict
          /\ IsNumber(a.centerPx.x) /\ IsNumber(a.centerPx.y)
          /\ IsNumber(a.radiusPx)
       \/ /\ a.kind = "bbox"
          /\ IsNumber(a.x) /\ IsNumber(a.y)
          /\ IsNumber(a.width) /\ IsNumber(a.height)

\* the rectangle <<left, top, right, bottom>> a well-formed annotation marks
Rect(a) ==
    IF a.kind = "circle"
    THEN <<a.centerPx.x.v - a.radiusPx.v, a.centerPx.y.v - a.radiusPx.v,
           a.centerPx.x.v + a.radiusPx.v, a.centerPx.y.v + a.radiusPx.v>>
    ELSE <<a.x.v, a.y.v, a.x.v + a.width.v, a.y.v + a.height.v>>

\* the part of Rect(a) inside a w x h image
Clipped(a, w, h) ==
    <<ClampTo(Rect(a)[1], w * Scale), ClampTo(Rect(a)[2], h * Scale),
      ClampTo(Rect(a)[3], w * Scale), ClampTo(Rect(a)[4], h * Scale)>>

\* the annotation passes validation: well formed and, once clipped to the
\* image, larger than one pixel in both dimensions
Passes(a, w, h) ==
    /\ WellFormed(a)
    /\ Clipped(a, w, h)[3] - Clipped(a, w, h)[1] > Scale
    /\ Clipped(a, w, h)[4] - Clipped(a, w, h)[2] > Scale

\* Rect(a) lies entirely inside the image
InFrame(a, w, h) ==
    /\ WellFormed(a)
    /\ 0 <= Rect(a)[1] /\ Rect(a)[1] <= Rect(a)[3] /\ Rect(a)[3] <= w * Scale
    /\ 0 <= Rect(a)[2] /\ Rect(a)[2] <= Rect(a)[4] /\ Rect(a)[4] <= h * Scale

\* Rect(a) lies entirely left of, right of, above or below the image
OffFrame(a, w, h) ==
    /\ WellFormed(a)
    /\ \/ Max(Rect(a)[1], Rect(a)[3]) < 0
       \/ Min(Rect(a)[1], Rect(a)[3]) > w * Scale
       \/ Max(Rect(a)[2], Rect(a)[4]) < 0
       \/ Min(Rect(a)[2], Rect(a)[4]) > h * Scale

\* the sample's class is a registered name
Registered(smp) == smp.class.t = "str" /\ smp.class.v \in RegisteredNames

\* the sample's class is registered and its annotations are a list
Convertible(smp) == Registered(smp) /\ smp.annotations.t = "list"

\* number of annotations among the first i that pass validation: the
\* position in the result of the box of annotation i when it passes
BoxIndex(anns, i, w, h) == Cardinality({k \in 1..i : Passes(anns[k], w, h)})

\* the float of the pixel quantity v (in model units)
Pixels(v) == FromRatio(v, Scale)

\* denormalized field f is v, or the float next to v
Near(f, v) == f \in {Pixels(v), FPred(Pixels(v)), FSucc(Pixels(v))}

RECURSIVE IsPowerOfTwo(_)
IsPowerOfTwo(n) == n = 1 \/ (n > 1 /\ n % 2 = 0 /\ IsPowerOfTwo(n \div 2))

(***************************************************************************)
(* Properties of sample_to_boxes and normalize_box.                        *)
(***************************************************************************)
\* the annotation list of the sample (empty when it is not a list)
Anns == sample.annotations.v

\* the sample with annotation list a
WithAnns(smp, a) == [smp EXCEPT !.annotations = [t |-> "list", v |-> a]]

\* the box the format prescribes for a passing annotation
ExpectedBox(a, class_id, w, h) ==
    LET c == Clipped(a, w, h)
    IN  [class_id |-> class_id,
         x_center |-> FromRatio((c[1] + c[3]) \div 2, Scale * w),
         y_center |-> FromRatio((c[2] + c[4]) \div 2, Scale * h),
         width    |-> FromRatio(c[3] - c[1], Scale * w),
         height   |-> FromRatio(c[4] - c[2], Scale * h)]

\* C1: sample_to_boxes never raises to its caller, whatever the sample's
\* class, annotations and annotation payloads are.
C1_NeverRaises == pc # "raised"

\* C2: every box sample_to_boxes returns has x_center, y_center, width and
\* height within [0, 1], width > 0 and height > 0, and the class identifier
\* the registry gives the sample's class.
C2_BoxesNormalized ==
    pc = "returned" =>
        \A i \in 1..Len(boxes) :
            /\ FInUnit(boxes[i].x_center) /\ FInUnit(boxes[i].y_center)
            /\ FInUnit(boxes[i].width) /\ FInUnit(boxes[i].height)
            /\ FPositive(boxes[i].width) /\ FPositive(boxes[i].height)
            /\ Registered(sample)
            /\ boxes[i].class_id = CLASS_NAME_TO_ID[sample.class.v]

\* two boxes returned, one of them cut by the image edge
C2_Witness ==
    /\ pc = "returned"
    /\ Len(boxes) = 2
    /\ \E i \in 1..Len(Anns) :
        Passes(Anns[i], width, height) /\ ~InFrame(Anns[i], width, height)

\* C3: normalize_box clamps x0, x1 into [0, W] and y0, y1 into [0, H]
\* independently, returns None exactly when the clamped x1 - x0 <= 1 or the
\* clamped y1 - y0 <= 1 (reversed corners included), and otherwise returns
\* the center and the positive width and height of the clamped corners.
C3_ClampThenReject ==
    pc = "normalized" =>
        LET X0 == ClampTo(corners[1], width * Scale)
            Y0 == ClampTo(corners[2], height * Scale)
            X1 == ClampTo(corners[3], width * Scale)
            Y1 == ClampTo(corners[4], height * Scale)
        IN  /\ raw = <<>> <=> (X1 - X0 <= Scale \/ Y1 - Y0 <= Scale)
            /\ raw # <<>> =>
                /\ 2 * raw[1] = X0 + X1 /\ 2 * raw[2] = Y0 + Y1
                /\ raw[3] = X1 - X0 /\ raw[4] = Y1 - Y0
                /\ raw[3] > 0 /\ raw[4] > 0

\* a box accepted at one and a half pixels wide after its left corner was
\* clamped to the image edge
C3_Witness ==
    /\ pc = "normalized"
    /\ raw # <<>>
    /\ corners[1] < 0
    /\ 2 * raw[3] = 3 * Scale

\* annotation i is a well-formed bbox wider and higher than one pixel that
\* lies fully inside the frame, in a sample of a registered class
C4_Case(i) ==
    /\ Convertible(sample)
    /\ Anns[i].kind = "bbox"
    /\ InFrame(Anns[i], width, height)
    /\ Anns[i].width.v > Scale /\ Anns[i].height.v > Scale

\* C4 as claimed: the box of such a bbox, multiplied back by the image
\* dimensions, gives exactly the center and the size of the input rectangle.
C4_RoundTripExact ==
    pc = "returned" =>
        \A i \in 1..Len(Anns) : C4_Case(i) =>
            LET j == BoxIndex(Anns, i, width, height)
                a == Anns[i]
            IN  /\ j \in 1..Len(boxes)
                /\ FMulInt(boxes[j].x_center, width) = Pixels(a.x.v + a.width.v \div 2)
                /\ FMulInt(boxes[j].y_center, height) = Pixels(a.y.v + a.height.v \div 2)
                /\ FMulInt(boxes[j].width, width) = Pixels(a.width.v)
                /\ FMulInt(boxes[j].height, height) = Pixels(a.height.v)

\* C4 amended: the box of such a bbox, multiplied back by the image
\* dimensions, gives the center and the size of the input rectangle up to
\* the rounding of the float division and multiplication: each value is the
\* input value or the float next to it, and is the input value exactly when
\* the image dimension it was divided by is a power of two.
C4_RoundTripNear ==
    pc = "returned" =>
        \A i \in 1..Len(Anns) : C4_Case(i) =>
            LET j == BoxIndex(Anns, i, width, height)
                a == Anns[i]
            IN  /\ j \in 1..Len(boxes)
                /\ Near(FMulInt(boxes[j].x_center, width), a.x.v + a.width.v \div 2)
                /\ Near(FMulInt(boxes[j].y_center, height), a.y.v + a.height.v \div 2)
                /\ Near(FMulInt(boxes[j].width, width), a.width.v)
                /\ Near(FMulInt(boxes[j].height, height), a.height.v)
                /\ IsPowerOfTwo(width) =>
                    /\ FMulInt(boxes[j].x_center, width) = Pixels(a.x.v + a.width.v \div 2)
                    /\ FMulInt(boxes[j].width, width) = Pixels(a.width.v)
                /\ IsPowerOfTwo(height) =>
                    /\ FMulInt(boxes[j].y_center, height) = Pixels(a.y.v + a.height.v \div 2)
                    /\ FMulInt(boxes[j].height, height) = Pixels(a.height.v)

\* an in-frame bbox whose center does not survive the round trip exactly
C4_Witness ==
    /\ pc = "returned"
    /\ Len(Anns) = 1 /\ C4_Case(1) /\ Len(boxes) = 1
    /\ FMulInt(boxes[1].x_center, width) # Pixels(Anns[1].x.v + Anns[1].width.v \div 2)
    /\ FMulInt(boxes[1].y_center, height) = Pixels(Anns[1].y.v + Anns[1].height.v \div 2)

\* annotation i is a circle for which a box is emitted
C5_Case(i) ==
    /\ Convertible(sample)
    /\ Anns[i].kind = "circle"
    /\ Passes(Anns[i], width, height)

\* C5 as claimed: the box emitted for a circle is square in pixel space
\* before normalization, with side 2 * radiusPx.
C5_CircleSquare ==
    pc = "returned" =>
        \A i \in 1..Len(Anns) : C5_Case(i) =>
            LET j == BoxIndex(Anns, i, width, height)
                side == 2 * Anns[i].radiusPx.v
            IN  /\ j \in 1..Len(boxes)
                /\ boxes[j].width = FromRatio(side, Scale * width)
                /\ boxes[j].height = FromRatio(side, Scale * height)

\* C5 amended: the rectangle handed to normalize_box for a circle is the
\* square of side 2 * radiusPx around its center; the box emitted has, in
\* pixel space before normalization, the width and height of that square
\* clamped to the image, each at most 2 * radiusPx, and is the square itself
\* when the square lies inside the image.
C5_CircleClamped ==
    pc = "returned" =>
        \A i \in 1..Len(Anns) : C5_Case(i) =>
            LET j == BoxIndex(Anns, i, width, height)
                side == 2 * Anns[i].radiusPx.v
                c == Clipped(Anns[i], width, height)
            IN  /\ j \in 1..Len(boxes)
                /\ Rect(Anns[i])[3] - Rect(Anns[i])[1] = side
                /\ Rect(Anns[i])[4] - Rect(Anns[i])[2] = side
                /\ c[3] - c[1] <= side /\ c[4] - c[2] <= side
                /\ boxes[j].width = FromRatio(c[3] - c[1], Scale * width)
                /\ boxes[j].height = FromRatio(c[4] - c[2], Scale * height)
                /\ InFrame(Anns[i], width, height) =>
                    /\ boxes[j].width = FromRatio(side, Scale * width)
                    /\ boxes[j].height = FromRatio(side, Scale * height)

\* a box emitted for a circle inside the image and one for a circle cut by
\* the image edge
C5_Witness ==
    /\ pc = "returned"
    /\ Len(boxes) = 2
    /\ \E i \in 1..Len(Anns) : C5_Case(i) /\ InFrame(Anns[i], width, height)
    /\ \E i \in 1..Len(Anns) : C5_Case(i) /\ ~InFrame(Anns[i], width, height)

\* C6: for a sample of a registered class whose annotations are a list,
\* sample_to_boxes returns one box per annotation that passes validation
\* and none for the others, in the original order, and the result for a
\* list A followed by B is the result for A followed by the result for B.
C6_OrderPreserved ==
    (pc = "returned" /\ Convertible(sample)) =>
        /\ Len(boxes) = BoxIndex(Anns, Len(Anns), width, height)
        /\ \A i \in 1..Len(Anns) : Passes(Anns[i], width, height) =>
            /\ BoxIndex(Anns, i, width, height) \in 1..Len(boxes)
            /\ boxes[BoxIndex(Anns, i, width, height)]
                 = ExpectedBox(Anns[i], CLASS_NAME_TO_ID[sample.class.v], width, height)
        /\ \A k \in 0..Len(Anns) :
            boxes = sample_to_boxes(WithAnns(sample, SubSeq(Anns, 1, k)),
                                    width, height).boxes
                    \o sample_to_boxes(WithAnns(sample, SubSeq(Anns, k + 1, Len(Anns))),
                                       width, height).boxes

\* a skipped annotation followed by one that yields the only box
C6_Witness ==
    /\ pc = "returned" /\ Convertible(sample)
    /\ Len(Anns) = 2
    /\ ~Passes(Anns[1], width, height) /\ Passes(Anns[2], width, height)
    /\ Len(boxes) = 1

\* C7: when the sample's class is absent, an ignored name, the negative
\* sentinel or a name not in the registry, sample_to_boxes returns the empty
\* list whatever the annotations and the image dimensions are.
C7_ClassGating ==
    (sample.class.t \in {"none", "str"} /\ ~Registered(sample)) =>
        /\ pc # "raised"
        /\ pc = "returned" => boxes = <<>>

\* an unrecognized class with an annotation that would pass validation
C7_Witness ==
    /\ pc = "returned"
    /\ sample.class = [t |-> "str", v |-> "road_debris"]
    /\ sample.annotations.t = "list"
    /\ \E i \in 1..Len(Anns) : Passes(Anns[i], width, height)
    /\ boxes = <<>>

\* the annotation list without the annotations lying off the frame
OnFrameAnns ==
    LET OnFrame(a) == ~OffFrame(a, width, height)
    IN  SelectSeq(Anns, OnFrame)

Loaded(id) ==
    /\ labels_json[id].exists /\ labels_json[id].valid
    /\ \E i \in 1..Len(ALLOWED_IMAGE_EXTS) :
        /\ images[id][ALLOWED_IMAGE_EXTS[i]] = "ok"
        /\ \A j \in 1..(i - 1) : images[id][ALLOWED_IMAGE_EXTS[j]] = "missing"

ClassOf(id) == labels_json[id].sample.class

\* the class is a name that is neither registered, negative nor ignored
Unrecognized(id) ==
    /\ ClassOf(id).t = "str"
    /\ ClassOf(id).v \notin RegisteredNames \cup IGNORED_CLASSES \cup {NEGATIVE_CLASS}

Negative(id) == ClassOf(id) = [t |-> "str", v |-> NEGATIVE_CLASS]

Returned(id) == \E i \in 1..Len(sample_ids) : sample_ids[i] = id

\* C9 as claimed: a sample of an unrecognized class goes through label
\* generation like a negative sample: build_yolo_labels writes an empty
\* label file for it and returns its sample id.
C9_UnrecognizedAsNegative ==
    pc = "done" =>
        \A id \in SampleIds : (Loaded(id) /\ (Unrecognized(id) \/ Negative(id))) =>
            /\ labels_yolo[id].exists /\ labels_yolo[id].lines = <<>>
            /\ Returned(id)

\* C9 amended: a sample of an unrecognized class gets an empty box list
\* from sample_to_boxes as a negative sample does, but build_yolo_labels
\* skips it: it writes no label file for it and does not return its sample
\* id, while for a sample of class negative it writes an empty label file
\* and returns the sample id.
C9_UnrecognizedSkipped ==
    pc = "done" =>
        \A id \in SampleIds : Loaded(id) =>
            /\ Unrecognized(id) =>
                /\ sample_to_boxes(labels_json[id].sample,
                                   ImageSize[1], ImageSize[2]).boxes = <<>>
                /\ ~labels_yolo[id].exists
                /\ ~Returned(id)
            /\ Negative(id) =>
                /\ sample_to_boxes(labels_json[id].sample,
                                   ImageSize[1], ImageSize[2]).boxes = <<>>
                /\ labels_yolo[id].exists /\ labels_yolo[id].lines = <<>>
                /\ Returned(id)

\* a finished run over an unrecognized sample and a negative sample
C9_Witness ==
    /\ pc = "done"
    /\ \E id \in SampleIds : Loaded(id) /\ Unrecognized(id)
    /\ \E id \in SampleIds : Loaded(id) /\ Negative(id) /\ Returned(id)

\* after a completed call the .txt files are the files of the returned ids,
\* none of them left from an earlier run, and a sample id has one exactly
\* when its JSON parsed, its image was found and read and its class is
\* registered or negative
C10_FilesMatch ==
    /\ \A id \in SampleIds : labels_yolo[id].exists <=> Returned(id)
    /\ \A id \in SampleIds : labels_yolo[id].exists => ~labels_yolo[id].stale
    /\ \A id \in SampleIds :
        labels_yolo[id].exists <=>
            /\ Loaded(id)
            /\ ClassOf(id).t = "str"
            /\ ClassOf(id).v \in RegisteredNames \cup {NEGATIVE_CLASS}

\* C10 as claimed: after a completed call the label files are exactly those
\* of the returned ids, as above, and the returned ids are in sorted order
\* without duplicates.
C10_SortedIds ==
    pc = "done" =>
        /\ C10_FilesMatch
        /\ \A i \in 1..(Len(sample_ids) - 1) :
            StrLess(sample_ids[i], sample_ids[i + 1])

\* C10 amended: after a completed call the label files are exactly those of
\* the returned ids, as above, and the returned ids are without duplicates
\* in the sorted order of their .json file names, which is not always the
\* sorted order of the ids.
C10_SortedPaths ==
    pc = "done" =>
        /\ C10_FilesMatch
        /\ \A i \in 1..(Len(sample_ids) - 1) :
            StrLess(LabelPath(sample_ids[i]), LabelPath(sample_ids[i + 1]))
        /\ \A i, j \in 1..Len(sample_ids) :
            sample_ids[i] = sample_ids[j] => i = j

\* a finished run that returned "a-b" before "a" and skipped a third sample
C10_Witness ==
    /\ pc = "done"
    /\ Len(sample_ids) = 2
    /\ StrLess(sample_ids[2], sample_ids[1])
    /\ \E id \in SampleIds : labels_json[id].exists /\ ~Returned(id)

=============================================================================
